---------------------------- MODULE Spec2Model ----------------------------
(***************************************************************************)
(* A model of the stock dashboard: the StockSearchApp component (its       *)
(* state, onSubmit and its three effects), the narrative client            *)
(* (analyzeStock, analyzeStockStream), the two narrative endpoints of the  *)
(* API server and the snapshot builder buildAIPayload.                     *)
(*                                                                         *)
(* React is modelled as React 18 schedules it.  The setState calls of one  *)
(* promise continuation are batched into one render, which runs, with the  *)
(* flush of its effects, before the next continuation: the continuation    *)
(* and that render are one step.  A setState called from an effect queues  *)
(* an update (nx differs from st) for a further render; fetch              *)
(* continuations wait for it, the user's submit does not.  The submit      *)
(* handler is a discrete event: its own updates are rendered, and the      *)
(* effects of that render flushed, before any other task runs, while       *)
(* updates still queued stay queued.                                       *)
(***************************************************************************)
EXTENDS Integers, Sequences, FiniteSets, TLC

(***************************************************************************)
(* Bounds of the model and constants of the program                        *)
(***************************************************************************)
MaxGen == 2              \* symbol changes (runs of the data-fetch effect) explored

MinPoints == 60          \* App.tsx: aiPayload.series.points.length < 60
maxPoints == 180         \* aiPayload.ts: const maxPoints = 180

NoSym == "none"          \* symbol === null

\* what the user may have typed into the ticker box
TickerInputs == {" ", "a", " B "}

\* ticker.trim().toUpperCase()
Normalize(t) ==
  CASE t = " " -> ""
    [] t = "a" -> "A"
    [] t = " B " -> "B"

\* lengths of the bar array an aggregates response may carry
RowCounts == {0, 1, MinPoints - 1, MinPoints}

Gens == 1..MaxGen

VARIABLES
  st,        \* the state of the last committed render (what effects close over)
  nx,        \* st with every queued setState applied (what the next render commits)
  gen,       \* number of runs of the data-fetch effect so far
  genSym,    \* genSym[g]: the `sym` captured by run g of the data-fetch effect
  aggReq,    \* the runs whose getAggregates IIFE is awaiting its response
  grpReq,    \* the runs whose Promise.allSettled IIFE is awaiting its results
  aggOut,    \* what the current run's aggregates IIFE did: "flight", "empty", "rows", "fail"
  grpOut,    \* what the current run's allSettled IIFE did: "flight", "quote", "noquote"
  aiCalls,   \* the analyzeStock calls in flight: [p, cancelled]
  sentCur,   \* analyzeStock has been called since the current run delivered both
  ignored,   \* some analyzeStock call resumed with cancelled set and returned
  az,        \* one analyzeStock call and the POST /api/ai/analyze request serving it
  sm,        \* one analyzeStockStream call and the POST /api/ai/analyze/stream request
  bl         \* one call of buildAIPayload: its arguments and what it returned

appVars ==
  <<st, nx, gen, genSym, aggReq, grpReq, aggOut, grpOut, aiCalls, sentCur, ignored>>
vars ==
  <<st, nx, gen, genSym, aggReq, grpReq, aggOut, grpOut, aiCalls, sentCur, ignored,
    az, sm, bl>>

(***************************************************************************)
(* Values.  A fetched value is identified by the run g of the data-fetch   *)
(* effect whose fetch produced it (0: null).  chartData also records how   *)
(* it was written, because every setChartData creates a fresh array.       *)
(***************************************************************************)
InitChart == [g |-> 0, k |-> "init", n |-> 0]

NullPayload ==
  [tk |-> NoSym, cd |-> InitChart, points |-> 0, q |-> 0, ind |-> 0, det |-> 0,
   nw |-> 0, ys |-> 0, oyr |-> 0, av |-> 0]

InitState ==
  [symbol |-> NoSym, loading |-> FALSE, quote |-> 0, chartData |-> InitChart,
   details |-> 0, news |-> 0, indicators |-> 0, aiPayload |-> NullPayload,
   aiLoading |-> FALSE, aiError |-> NoSym, aiResult |-> NoSym,
   yearStats |-> 0, oneYearReturn |-> 0, avgVolume |-> 0]

Min(a, b) == IF a < b THEN a ELSE b

\* the snapshot the payload effect builds from the state s of its render
Snapshot(s) ==
  [tk |-> s.symbol, cd |-> s.chartData, points |-> Min(s.chartData.n, maxPoints),
   q |-> s.quote, ind |-> s.indicators, det |-> s.details, nw |-> s.news,
   ys |-> s.yearStats, oyr |-> s.oneYearReturn, av |-> s.avgVolume]


(***************************************************************************)
(* The three effects of StockSearchApp.  s is the state of the render the  *)
(* effect closes over, q the pending state its setState calls update.      *)
(***************************************************************************)

\* data-fetch effect, run g: the resets before the two IIFEs
ResetData(q, g) ==
  [q EXCEPT !.loading = TRUE, !.quote = 0, !.details = 0, !.news = 0,
            !.yearStats = 0, !.oneYearReturn = 0, !.avgVolume = 0,
            !.chartData = [g |-> g, k |-> "reset", n |-> 0]]

\* the snapshot-eligibility check of the payload effect
Eligible(s) ==
  s.symbol # NoSym /\ s.chartData.n > 0 /\ s.quote # 0 /\ s.indicators # 0

\* payload effect
PayloadEffect(s, q) ==
  IF ~Eligible(s)
    THEN [q EXCEPT !.aiPayload = NullPayload]
    ELSE [q EXCEPT !.aiPayload = Snapshot(s)]

\* the dependency list of the payload effect
PayloadDeps(s) ==
  <<s.symbol, s.chartData, s.quote, s.details, s.yearStats, s.oneYearReturn,
    s.avgVolume, s.indicators, s.news>>

\* AI effect: its two early returns
AiGuard(s) ==
  /\ s.symbol # NoSym
  /\ s.aiPayload # NullPayload
  /\ s.aiPayload.points >= MinPoints

\* an effect cleanup that leaves the cancelled flags as they are
CleanupNone(calls) == calls

\* AI effect: the cleanup of its previous run sets that run's `cancelled`; the
\* continuation of a cancelled call returns at once and never reads its payload
Cleanup(calls) ==
  {[p |-> NullPayload, cancelled |-> TRUE] : c \in calls}

\* AI effect: the synchronous head of the IIFE, up to the await
AiStart(q) ==
  [q EXCEPT !.aiLoading = TRUE, !.aiError = NoSym, !.aiResult = NoSym]

\* both fetches of the current run have delivered: a series and a quote
Delivered(ao, go) ==
  ao = "rows" /\ go = "quote"

(***************************************************************************)
(* One render: `new` is committed, then the effects whose dependencies     *)
(* changed run in declaration order, queueing their updates on `pend`.     *)
(* ao and go are what the current run's two IIFEs have done by then.       *)
(***************************************************************************)
Commit(new, pend, ao, go) ==
  LET symCh == new.symbol # st.symbol
      payCh == PayloadDeps(new) # PayloadDeps(st)
      aiCh  == symCh \/ new.aiPayload # st.aiPayload
      q1    == IF symCh THEN ResetData(pend, gen + 1) ELSE pend
      q2    == IF payCh THEN PayloadEffect(new, q1) ELSE q1
      fire  == aiCh /\ AiGuard(new)
      q3    == IF fire THEN AiStart(q2) ELSE q2
      c1    == IF aiCh THEN Cleanup(aiCalls) ELSE aiCalls
      c2    == IF fire
                 THEN c1 \cup {[p |-> new.aiPayload, cancelled |-> FALSE]}
                 ELSE c1
  IN /\ st' = new
     /\ nx' = q3
     /\ aiCalls' = c2
     /\ UNCHANGED <<ignored, az, sm, bl>>
     /\ aggOut' = IF symCh THEN "flight" ELSE ao
     /\ grpOut' = IF symCh THEN "flight" ELSE go
     /\ sentCur' = IF symCh THEN FALSE
                   ELSE IF fire /\ Delivered(ao, go) THEN TRUE
                   ELSE sentCur

\* data-fetch effect: a run with a non-null symbol starts the two IIFEs
StartFetches(symCh, sym) ==
  IF symCh
    THEN /\ gen' = gen + 1
         /\ genSym' = [genSym EXCEPT ![gen + 1] = sym]
         /\ aggReq' = aggReq \cup {gen + 1}
         /\ grpReq' = grpReq \cup {gen + 1}
    ELSE UNCHANGED <<gen, genSym, aggReq, grpReq>>

\* onSubmit: a discrete event, rendered before anything else runs
OnSubmit(t) ==
  LET nextTicker == Normalize(t) IN
  IF nextTicker = ""
    THEN UNCHANGED vars
    ELSE /\ nextTicker = st.symbol \/ gen < MaxGen
         /\ Commit([st EXCEPT !.aiPayload = NullPayload, !.symbol = nextTicker],
                   [nx EXCEPT !.aiPayload = NullPayload, !.symbol = nextTicker],
                   aggOut, grpOut)
         /\ StartFetches(nextTicker # st.symbol, nextTicker)

\* a render of the updates the effects of the last render queued
Render ==
  /\ nx # st
  /\ Commit(nx, nx, aggOut, grpOut)
  /\ UNCHANGED <<gen, genSym, aggReq, grpReq>>

\* the handler with setIndicators under the guard of setOneYearReturn
AggRowsGuarded(q, g, n) ==
  [q EXCEPT
     !.yearStats = IF n > 0 THEN g ELSE @,
     !.oneYearReturn = IF n >= 2 THEN g ELSE @,
     !.avgVolume = IF n > 0 THEN g ELSE 0,
     !.chartData = [g |-> g, k |-> "agg", n |-> n],
     !.indicators = IF n >= 2 THEN g ELSE @]

\* the aggregates IIFE of run g resumes with a response holding n bars
AggRows(q, g, n) ==
  [q EXCEPT
     !.yearStats = IF n > 0 THEN g ELSE @,
     !.oneYearReturn = IF n >= 2 THEN g ELSE @,
     !.avgVolume = IF n > 0 THEN g ELSE 0,
     !.chartData = [g |-> g, k |-> "agg", n |-> n],
     !.indicators = g]

\* the aggregates IIFE of run g: its catch branch
AggCatch(q, g) ==
  [q EXCEPT !.yearStats = 0, !.oneYearReturn = 0, !.avgVolume = 0,
            !.chartData = [g |-> g, k |-> "catch", n |-> 0]]

AggDone(g) ==
  /\ nx = st
  /\ g \in aggReq
  /\ \E n \in RowCounts :
       LET u == AggRows(nx, g, n) IN
       Commit(u, u, IF g # gen THEN aggOut ELSE IF n = 0 THEN "empty" ELSE "rows",
              grpOut)
  /\ aggReq' = aggReq \ {g}
  /\ UNCHANGED <<gen, genSym, grpReq>>

AggFail(g) ==
  /\ nx = st
  /\ g \in aggReq
  /\ Commit(AggCatch(nx, g), AggCatch(nx, g),
            IF g # gen THEN aggOut ELSE "fail", grpOut)
  /\ aggReq' = aggReq \ {g}
  /\ UNCHANGED <<gen, genSym, grpReq>>

\* the continuation without its finally block
GroupSettledNoFinally(q, g, dOk, nOk, bar) ==
  [q EXCEPT !.details = IF dOk THEN g ELSE @,
            !.news = IF nOk THEN g ELSE @,
            !.quote = IF bar THEN g ELSE @]

\* the Promise.allSettled IIFE of run g resumes: which of the three fetches
\* fulfilled, and whether the previous-day response carries a bar
GroupSettled(q, g, dOk, nOk, bar) ==
  [q EXCEPT !.details = IF dOk THEN g ELSE @,
            !.news = IF nOk THEN g ELSE @,
            !.quote = IF bar THEN g ELSE @,
            !.loading = FALSE]

GroupDone(g) ==
  /\ nx = st
  /\ g \in grpReq
  /\ \E dOk \in BOOLEAN, nOk \in BOOLEAN, bar \in BOOLEAN :
       LET u == GroupSettled(nx, g, dOk, nOk, bar) IN
       Commit(u, u, aggOut,
              IF g # gen THEN grpOut ELSE IF bar THEN "quote" ELSE "noquote")
  /\ grpReq' = grpReq \ {g}
  /\ UNCHANGED <<gen, genSym, aggReq>>

\* what analyzeStock may resolve to, as the AI effect reads it
AiOutcomes == {"analysis", "noanalysis", "error"}

\* the AI effect's IIFE resumes after `await analyzeStock(aiPayload)`
AiResume(q, c, res) ==
  IF c.cancelled THEN q
  ELSE IF res = "error"
    THEN [q EXCEPT !.aiError = c.p.tk, !.aiLoading = FALSE]
    ELSE [q EXCEPT !.aiResult = IF res = "analysis" THEN c.p.tk ELSE NoSym,
                   !.aiLoading = FALSE]

AiDone(c) ==
  /\ nx = st
  /\ c \in aiCalls
  /\ \E res \in AiOutcomes :
       LET u == AiResume(nx, c, res) IN
       /\ st' = u
       /\ nx' = u
  /\ aiCalls' = aiCalls \ {c}
  /\ ignored' = (ignored \/ c.cancelled)
  /\ UNCHANGED <<gen, genSym, aggReq, grpReq, aggOut, grpOut, sentCur, az, sm, bl>>

AppIdle ==
  /\ st = InitState
  /\ nx = InitState
  /\ gen = 0
  /\ genSym = [g \in Gens |-> NoSym]
  /\ aggReq = {}
  /\ grpReq = {}
  /\ aggOut = "flight"
  /\ grpOut = "flight"
  /\ aiCalls = {}
  /\ sentCur = FALSE
  /\ ignored = FALSE

AppNext ==
  \/ \E t \in TickerInputs : OnSubmit(t)
  \/ Render
  \/ \E g \in Gens : AggDone(g)
  \/ \E g \in Gens : AggFail(g)
  \/ \E g \in Gens : GroupDone(g)
  \/ \E c \in aiCalls : AiDone(c)


(***************************************************************************)
(* Text.  A string is a sequence of one-character strings.                 *)
(***************************************************************************)
NL == "\n"
QT == "\""
BS == "\\"

RECURSIVE Concat(_)
Concat(ss) == IF ss = <<>> THEN <<>> ELSE Head(ss) \o Concat(Tail(ss))

\* pat occurs in s at position i
MatchAt(s, pat, i) ==
  s[i] = pat[1] /\ \A j \in 2..Len(pat) : s[i + j - 1] = pat[j]

\* String.prototype.indexOf of a non-empty pat, 1-based; 0 when pat does not
\* occur
IndexOf(s, pat) ==
  LET I == {i \in 1..(Len(s) - Len(pat) + 1) : MatchAt(s, pat, i)}
  IN IF I = {} THEN 0 ELSE CHOOSE i \in I : \A j \in I : i <= j

StartsWith(s, pat) ==
  Len(s) >= Len(pat) /\ SubSeq(s, 1, Len(pat)) = pat

\* String.prototype.split with a non-empty separator
RECURSIVE Split(_, _)
Split(s, sep) ==
  LET i == IndexOf(s, sep) IN
  IF i = 0 THEN <<s>>
  ELSE <<SubSeq(s, 1, i - 1)>> \o Split(SubSeq(s, i + Len(sep), Len(s)), sep)

\* String.prototype.replace(pat, ""): the first occurrence only
RemoveFirst(s, pat) ==
  LET i == IndexOf(s, pat) IN
  IF i = 0 THEN s ELSE SubSeq(s, 1, i - 1) \o SubSeq(s, i + Len(pat), Len(s))

IsSpace(c) == c \in {" ", NL}

\* String.prototype.trim
RECURSIVE Trim(_)
Trim(s) ==
  IF s = <<>> THEN s
  ELSE IF IsSpace(Head(s)) THEN Trim(Tail(s))
  ELSE IF IsSpace(s[Len(s)]) THEN Trim(SubSeq(s, 1, Len(s) - 1))
  ELSE s

(***************************************************************************)
(* JSON, over the characters the model writes: a, the quote, the           *)
(* backslash, n, the line feed, the space and the two braces.  A parsed    *)
(* value is [ok, t, s]: a string (t = "str", its characters s) or the      *)
(* empty object (t = "obj"); ok = FALSE stands for the SyntaxError.        *)
(***************************************************************************)
JsonFail == [ok |-> FALSE, t |-> "none", s |-> <<>>]

\* JSON.stringify of a string
RECURSIVE Escape(_)
Escape(s) ==
  IF s = <<>> THEN <<>>
  ELSE LET c == Head(s) IN
       (IF c = QT THEN <<BS, QT>>
        ELSE IF c = BS THEN <<BS, BS>>
        ELSE IF c = NL THEN <<BS, "n">>
        ELSE <<c>>) \o Escape(Tail(s))

\* a string put between quotes with nothing escaped
JsonStringifyRaw(s) == <<QT>> \o s \o <<QT>>

JsonStringify(s) == <<QT>> \o Escape(s) \o <<QT>>

\* the characters of a string literal's body, after its opening quote: the
\* decoded string when the body ends with the closing quote, else a failure
RECURSIVE Unescape(_, _)
Unescape(s, acc) ==
  IF s = <<>> THEN JsonFail
  ELSE LET c == Head(s) IN
       IF c = QT THEN (IF Len(s) = 1 THEN [ok |-> TRUE, t |-> "str", s |-> acc]
                       ELSE JsonFail)
       ELSE IF c = NL THEN JsonFail
       ELSE IF c = BS THEN
         (IF Len(s) < 2 THEN JsonFail
          ELSE IF s[2] = QT THEN Unescape(SubSeq(s, 3, Len(s)), Append(acc, QT))
          ELSE IF s[2] = BS THEN Unescape(SubSeq(s, 3, Len(s)), Append(acc, BS))
          ELSE IF s[2] = "n" THEN Unescape(SubSeq(s, 3, Len(s)), Append(acc, NL))
          ELSE JsonFail)
       ELSE Unescape(Tail(s), Append(acc, c))

\* JSON.parse
JsonParse(text) ==
  LET t == Trim(text) IN
  IF t = <<>> THEN JsonFail
  ELSE IF Head(t) = QT THEN Unescape(Tail(t), <<>>)
  ELSE IF Head(t) = "{" /\ t[Len(t)] = "}" /\ Len(t) >= 2
          /\ Trim(SubSeq(t, 2, Len(t) - 1)) = <<>>
    THEN [ok |-> TRUE, t |-> "obj", s |-> <<>>]
  ELSE JsonFail

\* an analysis object whose only field is summary
SummaryOnly(text) == [ok |-> TRUE, t |-> "summary", s |-> text]

NoAnalysis == [ok |-> FALSE, t |-> "none", s |-> <<>>]

(***************************************************************************)
(* analyzeStock (the client) and POST /api/ai/analyze (the server).        *)
(***************************************************************************)
ErrTimedOut == "AI request timed out"
ErrInvalidJson == "Invalid JSON from /api/ai/analyze"
ErrNoKey == "Missing OPENAI_API_KEY on server"
ErrNetwork == "Network error"
ErrAnalysisFailed == "AI analysis failed"
ErrOpenAI == "OpenAI error"

\* err.message of a rejected fetch, and the text of a failed upstream response
Messages == {"", "Failed to fetch"}

\* `AI error ${r.status}`
StatusError(status) ==
  CASE status = 200 -> "AI error 200"
    [] status = 429 -> "AI error 429"
    [] status = 500 -> "AI error 500"
    [] status = 503 -> "AI error 503"

\* the texts the generation service may return as message.content
Contents ==
  {<<"{", "}">>, <<QT, "a", QT>>, <<"a">>, <<>>, <<"{">>, <<"a", NL, QT>>}

NoResp == [sent |-> FALSE, status |-> 0, ok |-> FALSE, error |-> "", analysis |-> NoAnalysis]

\* res.status(status).json({ ok, error, analysis })
Respond(status, ok, error, analysis) ==
  [sent |-> TRUE, status |-> status, ok |-> ok, error |-> error, analysis |-> analysis]

NoResult == [ok |-> FALSE, error |-> "", analysis |-> NoAnalysis]

AzOff ==
  [cpc |-> "off", ctimer |-> "off", rok |-> FALSE, cres |-> NoResult,
   spc |-> "off", stimer |-> "off", hasKey |-> FALSE, resp |-> NoResp,
   gotContent |-> FALSE, content |-> <<>>]

\* analyzeStock up to its first await: the timer is armed, the request sent
AzStart(key) ==
  [AzOff EXCEPT !.cpc = "fetch", !.ctimer = "armed", !.spc = "idle", !.hasKey = key]

\* a parse whose catch branch leaves analysis as it was initialised, {}
SrvAnalysisEmpty(content) ==
  LET v == JsonParse(content) IN
  IF v.ok THEN v ELSE [ok |-> TRUE, t |-> "obj", s |-> <<>>]

\* the server's parse of message.content, with its fallback
SrvAnalysis(content) ==
  LET v == JsonParse(content) IN
  IF v.ok THEN v ELSE SummaryOnly(content)

\* the server's catch branch
SrvCatch(name, message) ==
  Respond(500, FALSE,
          IF name = "AbortError" THEN ErrTimedOut
          ELSE IF message # "" THEN message ELSE ErrAnalysisFailed,
          NoAnalysis)

\* the handler runs up to its await of the upstream fetch
AzServerReceive ==
  /\ az.spc = "idle"
  /\ az' = IF ~az.hasKey
             THEN [az EXCEPT !.spc = "sent",
                             !.resp = Respond(503, FALSE, ErrNoKey, NoAnalysis)]
             ELSE [az EXCEPT !.spc = "upstream", !.stimer = "armed"]
  /\ UNCHANGED <<appVars, sm, bl>>

\* the server's 15 s timer fires while the upstream fetch is pending
AzServerTimeout ==
  /\ az.spc = "upstream"
  /\ az.stimer = "armed"
  /\ az' = [az EXCEPT !.spc = "sent", !.stimer = "fired",
                      !.resp = SrvCatch("AbortError", "")]
  /\ UNCHANGED <<appVars, sm, bl>>

\* the upstream fetch rejects
AzUpstreamFail ==
  /\ az.spc = "upstream"
  /\ \E m \in Messages :
       az' = [az EXCEPT !.spc = "sent", !.resp = SrvCatch("TypeError", m)]
  /\ UNCHANGED <<appVars, sm, bl>>

\* the upstream fetch resolves with a response that is not ok
AzUpstreamNotOk ==
  /\ az.spc = "upstream"
  /\ \E text \in Messages :
       az' = [az EXCEPT !.spc = "sent", !.stimer = "cleared",
                        !.resp = Respond(429, FALSE,
                                         IF text # "" THEN text ELSE ErrOpenAI,
                                         NoAnalysis)]
  /\ UNCHANGED <<appVars, sm, bl>>

\* the upstream fetch resolves with an ok response: clearTimeout, await r.json()
AzUpstreamOk ==
  /\ az.spc = "upstream"
  /\ az' = [az EXCEPT !.spc = "upjson", !.stimer = "cleared"]
  /\ UNCHANGED <<appVars, sm, bl>>

\* r.json() of the upstream response rejects
AzUpstreamBadJson ==
  /\ az.spc = "upjson"
  /\ az' = [az EXCEPT !.spc = "sent",
                      !.resp = SrvCatch("SyntaxError", "Unexpected end of JSON input")]
  /\ UNCHANGED <<appVars, sm, bl>>

\* r.json() resolves: content (the text "{}" when the reply carries none) is
\* parsed and the analysis sent
AzUpstreamContent ==
  /\ az.spc = "upjson"
  /\ \E text \in Contents, absent \in BOOLEAN :
       LET content == IF absent THEN <<"{", "}">> ELSE text IN
       az' = [az EXCEPT !.spc = "sent", !.gotContent = TRUE, !.content = content,
                        !.resp = Respond(200, TRUE, "", SrvAnalysis(content))]
  /\ UNCHANGED <<appVars, sm, bl>>

\* analyzeStock: what it returns once r and json are known
AnalyzeReturn(rok, status, json) ==
  IF ~rok \/ ~json.ok
    THEN [ok |-> FALSE,
          error |-> IF json.error # "" THEN json.error ELSE StatusError(status),
          analysis |-> NoAnalysis]
    ELSE [ok |-> TRUE, error |-> "", analysis |-> json.analysis]

\* analyzeStock: its outer catch
AnalyzeCatch(name, message) ==
  [ok |-> FALSE,
   error |-> IF name = "AbortError" THEN ErrTimedOut
             ELSE IF message # "" THEN message ELSE ErrNetwork,
   analysis |-> NoAnalysis]

\* analyzeStock: the catch around r.json()
InvalidJson == [ok |-> FALSE, error |-> ErrInvalidJson, analysis |-> NoAnalysis]

\* fetch resolves with the response's head
AzClientHead ==
  /\ az.cpc = "fetch"
  /\ az.resp.sent
  /\ az' = [az EXCEPT !.cpc = "json",
                      !.rok = (az.resp.status >= 200 /\ az.resp.status <= 299)]
  /\ UNCHANGED <<appVars, sm, bl>>

\* r.json() settles: the body read and parsed, or not JSON
AzClientBody ==
  /\ az.cpc = "json"
  /\ \E valid \in BOOLEAN :
       LET json == IF valid
                     THEN [ok |-> az.resp.ok, error |-> az.resp.error,
                           analysis |-> az.resp.analysis]
                     ELSE InvalidJson
       IN az' = [az EXCEPT !.cpc = "done", !.ctimer = "cleared",
                           !.cres = AnalyzeReturn(az.rok, az.resp.status, json)]
  /\ UNCHANGED <<appVars, sm, bl>>

\* fetch rejects: the connection is refused or lost
AzClientNetFail ==
  /\ az.cpc = "fetch"
  /\ \E m \in Messages :
       az' = [az EXCEPT !.cpc = "done", !.ctimer = "cleared",
                        !.cres = AnalyzeCatch("TypeError", m)]
  /\ UNCHANGED <<appVars, sm, bl>>

\* the 20 s timer fires, controller.abort(): the pending fetch, or the pending
\* r.json(), rejects with an AbortError
AzClientTimeout ==
  /\ az.ctimer = "armed"
  /\ az.cpc \in {"fetch", "json"}
  /\ az' = [az EXCEPT
              !.cpc = "done", !.ctimer = "fired",
              !.cres = IF az.cpc = "fetch"
                         THEN AnalyzeCatch("AbortError", "")
                         ELSE AnalyzeReturn(az.rok, az.resp.status, InvalidJson)]
  /\ UNCHANGED <<appVars, sm, bl>>

AzNext ==
  \/ AzServerReceive
  \/ AzServerTimeout
  \/ AzUpstreamFail
  \/ AzUpstreamNotOk
  \/ AzUpstreamOk
  \/ AzUpstreamBadJson
  \/ AzUpstreamContent
  \/ AzClientHead
  \/ AzClientBody
  \/ AzClientNetFail
  \/ AzClientTimeout

(***************************************************************************)
(* analyzeStockStream (the client) and POST /api/ai/analyze/stream (the    *)
(* server).  wire holds the bytes the server has written and the client    *)
(* has not read yet.                                                       *)
(***************************************************************************)
MaxParts == 2            \* parts of the upstream stream explored

EventPrefix == <<"e", "v", "e", "n", "t", ":">>
EventField == <<"e", "v", "e", "n", "t", ":", " ">>
DataField == <<"d", "a", "t", "a", ":", " ">>
EvChunk == <<"c", "h", "u", "n", "k">>
EvDone == <<"d", "o", "n", "e">>
EvError == <<"e", "r", "r", "o", "r">>

\* `event: ${ev}\ndata: ${data}\n\n`
SseEvent(ev, data) == EventField \o ev \o <<NL>> \o DataField \o data \o <<NL, NL>>

\* part.choices?.[0]?.delta?.content ?? ""
Deltas == {<<>>, <<NL, NL>>, <<QT>>, <<"{", "}">>}

\* err.message of a failed upstream stream; <<>> when it is undefined
StreamErrors == {<<>>, <<"a">>}
StreamErrorDefault == <<"s", "t", "r", "e", "a", "m", " ", "e", "r", "r", "o", "r">>
\* "Missing OPENAI_API_KEY"
NoKeyText ==
  <<"M", "i", "s", "s", "i", "n", "g", " ", "O", "P", "E", "N", "A", "I", "_",
    "A", "P", "I", "_", "K", "E", "Y">>

Str(s) == [ok |-> TRUE, t |-> "str", s |-> s]
Lit(m) == [lit |-> m]

NoStreamResult == [kind |-> "none", ok |-> FALSE, error |-> Lit(""), analysis |-> NoAnalysis]

SmOff ==
  [cpc |-> "off", srv |-> "off", hasKey |-> FALSE, hdr |-> FALSE, status |-> 0,
   wire |-> <<>>, buffer |-> <<>>, finalJson |-> Str(<<>>), deltas |-> <<>>,
   sres |-> NoStreamResult, sentToks |-> <<>>, parts |-> 0, full |-> <<>>,
   srvEnd |-> "none", netFailed |-> FALSE]

\* analyzeStockStream up to its await of fetch
SmStart(key) == [SmOff EXCEPT !.cpc = "fetch", !.srv = "idle", !.hasKey = key]

\* res.write(text), the head going out with the first write
Write(m, text) ==
  [m EXCEPT !.hdr = TRUE, !.status = IF m.hdr THEN m.status ELSE 200,
            !.wire = m.wire \o text]

\* the catch branch of the route: the error event, then res.end()
StreamCatch(m, msg) ==
  [Write(m, SseEvent(EvError, JsonStringify(IF msg = <<>> THEN StreamErrorDefault ELSE msg)))
     EXCEPT !.srv = "closed", !.srvEnd = "error"]

\* the handler runs up to its await of create()
SmServerReceive ==
  /\ sm.srv = "idle"
  /\ sm' = IF ~sm.hasKey
             THEN [sm EXCEPT !.srv = "closed", !.srvEnd = "nokey", !.hdr = TRUE,
                             !.status = 503,
                             !.wire = SseEvent(EvError, NoKeyText)]
             ELSE [sm EXCEPT !.srv = "create"]
  /\ UNCHANGED <<appVars, az, bl>>

\* create() resolves with the upstream stream
SmServerCreated ==
  /\ sm.srv = "create"
  /\ sm' = [sm EXCEPT !.srv = "open"]
  /\ UNCHANGED <<appVars, az, bl>>

\* create() rejects
SmServerCreateFail ==
  /\ sm.srv = "create"
  /\ \E msg \in StreamErrors : sm' = StreamCatch(sm, msg)
  /\ UNCHANGED <<appVars, az, bl>>

\* one iteration of the for-await loop
SmServerPart ==
  /\ sm.srv = "open"
  /\ sm.parts < MaxParts
  /\ \E delta \in Deltas :
       sm' = IF delta = <<>>
               THEN [sm EXCEPT !.parts = @ + 1]
               ELSE [Write(sm, SseEvent(EvChunk, JsonStringify(delta)))
                       EXCEPT !.parts = @ + 1, !.full = @ \o delta,
                              !.sentToks = Append(@, delta)]
  /\ UNCHANGED <<appVars, az, bl>>

\* the upstream stream ends: the done event, then res.end()
SmServerDone ==
  /\ sm.srv = "open"
  /\ sm' = [Write(sm, SseEvent(EvDone, JsonStringify(sm.full)))
              EXCEPT !.srv = "closed", !.srvEnd = "done"]
  /\ UNCHANGED <<appVars, az, bl>>

\* the upstream stream throws inside the loop
SmServerStreamFail ==
  /\ sm.srv = "open"
  /\ \E msg \in StreamErrors : sm' = StreamCatch(sm, msg)
  /\ UNCHANGED <<appVars, az, bl>>

\* the generation service stops answering: create() or the next part never
\* arrives, and the route has no timer of its own
SmServerStall ==
  /\ sm.srv \in {"create", "open"}
  /\ sm' = [sm EXCEPT !.srv = "stalled"]
  /\ UNCHANGED <<appVars, az, bl>>

\* `AI stream error ${r.status}`
StreamStatusError(status) ==
  CASE status = 200 -> "AI stream error 200"
    [] status = 503 -> "AI stream error 503"

\* the body of the for-of loop over the complete events of one read; lp is
\* [deltas, finalJson, out, error], out = "go" until a return or a throw
ProcessEvent(evt, lp) ==
  IF ~StartsWith(evt, EventPrefix) THEN lp
  ELSE
    LET lines == Split(evt, <<NL>>)
        ev    == Trim(RemoveFirst(lines[1], EventField))
        data  == IF Len(lines) >= 2 THEN RemoveFirst(lines[2], DataField) ELSE <<>>
        v     == JsonParse(data)
    IN IF ev \notin {EvChunk, EvDone, EvError} THEN lp
       ELSE IF ~v.ok
         THEN [lp EXCEPT !.out = "throw", !.error = Lit("Unexpected token in JSON")]
       ELSE IF ev = EvChunk THEN [lp EXCEPT !.deltas = Append(@, v)]
       ELSE IF ev = EvDone THEN [lp EXCEPT !.finalJson = v]
       ELSE [lp EXCEPT !.out = "return", !.error = v]

RECURSIVE ProcessEvents(_, _)
ProcessEvents(events, lp) ==
  IF events = <<>> \/ lp.out # "go" THEN lp
  ELSE ProcessEvents(Tail(events), ProcessEvent(Head(events), lp))

\* the final parse of finalJson, with its fallback
FinalAnalysis(fj) ==
  LET v == IF fj.t = "str" THEN JsonParse(fj.s) ELSE JsonFail IN
  IF v.ok THEN v ELSE SummaryOnly(fj.s)

\* the outer catch
StreamCatchResult(message) ==
  [kind |-> "exception", ok |-> FALSE,
   error |-> IF message = Lit("") THEN Lit(ErrNetwork) ELSE message,
   analysis |-> NoAnalysis]

\* fetch resolves once the head of the response has arrived
SmClientHead ==
  /\ sm.cpc = "fetch"
  /\ sm.hdr
  /\ sm' = IF sm.status < 200 \/ sm.status > 299
             THEN [sm EXCEPT !.cpc = "done",
                             !.sres = [kind |-> "http", ok |-> FALSE,
                                       error |-> Lit(StreamStatusError(sm.status)),
                                       analysis |-> NoAnalysis]]
             ELSE [sm EXCEPT !.cpc = "read"]
  /\ UNCHANGED <<appVars, az, bl>>

\* reader.read() resolves with the next k bytes, and the loop body runs
SmClientRead ==
  /\ sm.cpc = "read"
  /\ sm.wire # <<>>
  /\ \E k \in 1..Len(sm.wire) :
       LET buf    == sm.buffer \o SubSeq(sm.wire, 1, k)
           events == Split(buf, <<NL, NL>>)
           lp     == ProcessEvents(SubSeq(events, 1, Len(events) - 1),
                                   [deltas |-> sm.deltas, finalJson |-> sm.finalJson,
                                    out |-> "go", error |-> Lit("")])
           m      == [sm EXCEPT !.wire = SubSeq(sm.wire, k + 1, Len(sm.wire)),
                                !.buffer = events[Len(events)],
                                !.deltas = lp.deltas, !.finalJson = lp.finalJson]
       IN sm' = IF lp.out = "go" THEN m
                ELSE IF lp.out = "return"
                  THEN [m EXCEPT !.cpc = "done",
                                 !.sres = [kind |-> "event", ok |-> FALSE,
                                           error |-> lp.error, analysis |-> NoAnalysis]]
                ELSE [m EXCEPT !.cpc = "done", !.sres = StreamCatchResult(lp.error)]
  /\ UNCHANGED <<appVars, az, bl>>

\* reader.read() resolves with done: the loop breaks, the final parse runs
SmClientEof ==
  /\ sm.cpc = "read"
  /\ sm.wire = <<>>
  /\ sm.srv = "closed"
  /\ sm' = [sm EXCEPT !.cpc = "done",
                      !.sres = [kind |-> "ok", ok |-> TRUE, error |-> Lit(""),
                                analysis |-> FinalAnalysis(sm.finalJson)]]
  /\ UNCHANGED <<appVars, az, bl>>

\* fetch or reader.read() rejects: the connection is refused or lost
SmClientNetFail ==
  /\ sm.cpc \in {"fetch", "read"}
  /\ \E m \in Messages :
       sm' = [sm EXCEPT !.cpc = "done", !.netFailed = TRUE,
                        !.sres = StreamCatchResult(Lit(m))]
  /\ UNCHANGED <<appVars, az, bl>>

SmNext ==
  \/ SmServerReceive
  \/ SmServerCreated
  \/ SmServerCreateFail
  \/ SmServerPart
  \/ SmServerDone
  \/ SmServerStreamFail
  \/ SmServerStall
  \/ SmClientHead
  \/ SmClientRead
  \/ SmClientEof
  \/ SmClientNetFail

BlOff == [pc |-> "off"]

InitAI ==
  /\ AppIdle
  /\ bl = BlOff
  /\ \E key \in BOOLEAN :
       \/ az = AzStart(key) /\ sm = SmOff
       \/ az = AzOff /\ sm = SmStart(key)

NextAI == AzNext \/ SmNext

SpecAI == InitAI /\ [][NextAI]_vars

(***************************************************************************)
(* buildAIPayload.  A JavaScript value is [t, v]: undefined, null, a       *)
(* finite number (v in units of 10^-Scale), a number that is not finite, a *)
(* string (v its code), an object (v its fields).  Thrown stands for the   *)
(* TypeError of a property read on undefined or null; it propagates        *)
(* through every expression it is part of.                                 *)
(***************************************************************************)
Scale == 5               \* decimals carried by the fixed-point numbers
NewsCap == 8             \* aiPayload.ts: .slice(0, 8)

Undef == [t |-> "undef", v |-> 0]
Null == [t |-> "null", v |-> 0]
Thrown == [t |-> "throw", v |-> 0]
NotFinite == [t |-> "nan", v |-> 0]
\* a finite number n so large that n * 10^4 is not finite any more (1e305)
Huge == [t |-> "huge", v |-> 0]
Num(k) == [t |-> "num", v |-> k]
StrV(c) == [t |-> "str", v |-> c]
Obj(f) == [t |-> "obj", v |-> f]

IsNullish(x) == x.t \in {"undef", "null"}

\* o[k] of a value that is not undefined or null
Get(o, k) == IF o.t = "obj" /\ k \in DOMAIN o.v THEN o.v[k] ELSE Undef

\* o.k
Dot(o, k) == IF o.t = "throw" \/ IsNullish(o) THEN Thrown ELSE Get(o, k)

\* o.k written where the code has o?.k
PlainRead(o, k) == Dot(o, k)

\* o?.k
Opt(o, k) == IF o.t = "throw" THEN Thrown ELSE IF IsNullish(o) THEN Undef ELSE Get(o, k)

\* a ?? b
Coalesce(a, b) == IF a.t = "throw" THEN a ELSE IF IsNullish(a) THEN b ELSE a

RECURSIVE Pow10(_)
Pow10(d) == IF d = 0 THEN 1 ELSE 10 * Pow10(d - 1)

\* Math.round(n * f) / f for f = 10^d, on the fixed-point numbers
r(n, d) ==
  IF n.t = "throw" THEN Thrown
  ELSE IF n.t = "huge" THEN (IF d = 0 THEN n ELSE NotFinite)
  ELSE IF n.t # "num" THEN Null
  ELSE LET u == Pow10(Scale - d) IN Num(((2 * n.v + u) \div (2 * u)) * u)

\* String.prototype.toUpperCase on the tickers
ToUpperCase(t) == CASE t = "a" -> "A" [] t = "b" -> "B" [] OTHER -> t

\* the first n elements where the code keeps the last n
SliceHead(a, n) == IF Len(a) <= n THEN a ELSE SubSeq(a, 1, n)

\* the last n elements where the code keeps the first n
SliceTail(a, n) == IF Len(a) <= n THEN a ELSE SubSeq(a, Len(a) - n + 1, Len(a))

\* Array.prototype.slice(-n)
SliceLast(a, n) == IF Len(a) <= n THEN a ELSE SubSeq(a, Len(a) - n + 1, Len(a))

\* Array.prototype.slice(0, n)
SliceFirst(a, n) == IF Len(a) <= n THEN a ELSE SubSeq(a, 1, n)

\* args.indicators?.macd.k
MacdField(ind, k) == IF IsNullish(ind) THEN Undef ELSE Dot(Opt(ind, "macd"), k)

NewsItem(n) ==
  [id |-> Dot(n, "id"), title |-> Dot(n, "title"),
   published_utc |-> Dot(n, "published_utc"), publisher |-> Dot(n, "publisher"),
   article_url |-> Dot(n, "article_url")]

\* the keys JSON.stringify writes for an object: a key holding undefined is
\* left out
SerializedKeys(o) == {k \in DOMAIN o : o[k].t # "undef"}

\* the object literal buildAIPayload returns, before any TypeError is raised
PayloadLiteral(args) ==
  LET trimmed == [i \in 1..Len(SliceLast(args.chartData, maxPoints)) |->
                    [t |-> SliceLast(args.chartData, maxPoints)[i].t,
                     c |-> SliceLast(args.chartData, maxPoints)[i].y]]
      news    == IF IsNullish(args.news) THEN <<>> ELSE args.news.v
  IN
  [ticker |-> ToUpperCase(args.ticker),
   asOf |-> args.nowISO,
   price |->
     [last |-> r(Dot(args.quote, "price"), 4),
      change |-> r(Dot(args.quote, "change"), 4),
      changePct |-> r(Dot(args.quote, "changePct"), 4),
      dayHigh |-> r(Dot(args.quote, "dayHigh"), 4),
      dayLow |-> r(Dot(args.quote, "dayLow"), 4),
      prevClose |-> r(Dot(args.quote, "prevClose"), 4),
      volume |-> r(Dot(args.quote, "volume"), 0),
      currency |-> Coalesce(Dot(args.quote, "currency"), Null)],
   fundamentals |->
     [name |-> Coalesce(Opt(args.details, "name"), Null),
      marketCap |-> r(Coalesce(Opt(args.details, "market_cap"), Null), 0),
      exchange |-> Coalesce(Opt(args.details, "primary_exchange"), Null),
      industry |-> Coalesce(Opt(args.details, "industry"), Null),
      homepage |-> Coalesce(Opt(args.details, "homepage_url"), Null)],
   stats |->
     [high52w |-> r(Coalesce(Opt(args.yearStats, "high"), Null), 4),
      low52w |-> r(Coalesce(Opt(args.yearStats, "low"), Null), 4),
      return1y |-> r(Coalesce(args.oneYearReturn, Null), 4),
      avgVolume90d |-> r(Coalesce(args.avgVolume, Null), 0)],
   indicators |->
     [lastClose |-> r(Coalesce(Opt(args.indicators, "lastClose"), Null), 4),
      sma20 |-> r(Coalesce(Opt(args.indicators, "sma20"), Null), 4),
      sma50 |-> r(Coalesce(Opt(args.indicators, "sma50"), Null), 4),
      sma200 |-> r(Coalesce(Opt(args.indicators, "sma200"), Null), 4),
      ema20 |-> r(Coalesce(Opt(args.indicators, "ema20"), Null), 4),
      ema50 |-> r(Coalesce(Opt(args.indicators, "ema50"), Null), 4),
      ema200 |-> r(Coalesce(Opt(args.indicators, "ema200"), Null), 4),
      macd |->
        [line |-> r(Coalesce(MacdField(args.indicators, "line"), Null), 4),
         signal |-> r(Coalesce(MacdField(args.indicators, "signal"), Null), 4),
         hist |-> r(Coalesce(MacdField(args.indicators, "hist"), Null), 4)],
      rsi14 |-> r(Coalesce(Opt(args.indicators, "rsi14"), Null), 4)],
   series |-> [timeframe |-> "daily", points |-> trimmed],
   news |-> [i \in 1..Len(SliceFirst(news, NewsCap)) |->
               NewsItem(SliceFirst(news, NewsCap)[i])]]

\* some expression of the literal raises
Raises(p) ==
  \/ \E k \in DOMAIN p.price : p.price[k].t = "throw"
  \/ \E k \in DOMAIN p.fundamentals : p.fundamentals[k].t = "throw"
  \/ \E k \in DOMAIN p.stats : p.stats[k].t = "throw"
  \/ \E k \in DOMAIN p.indicators \ {"macd"} : p.indicators[k].t = "throw"
  \/ \E k \in DOMAIN p.indicators.macd : p.indicators.macd[k].t = "throw"
  \/ \E i \in DOMAIN p.news : \E k \in DOMAIN p.news[i] : p.news[i][k].t = "throw"

Threw == [threw |-> TRUE]

buildAIPayload(args) ==
  LET p == PayloadLiteral(args) IN
  IF Raises(p) THEN Threw ELSE [threw |-> FALSE, value |-> p]

(***************************************************************************)
(* The arguments buildAIPayload is applied to.                             *)
(***************************************************************************)
MaxNewsOver == 1         \* news items beyond the cap explored

FullQuote ==
  Obj([price |-> Num(1234565), change |-> Num(-1234565), changePct |-> Num(-4),
       dayHigh |-> Num(1250000), dayLow |-> Num(1200004), prevClose |-> Num(1235000),
       volume |-> Num(150000), currency |-> StrV(1)])

NullQuote ==
  Obj([price |-> Null, change |-> Null, changePct |-> Null, dayHigh |-> Null,
       dayLow |-> Null, prevClose |-> Null, volume |-> Null])

QuoteInputs == {Null, FullQuote, NullQuote}

FullDetails ==
  Obj([name |-> StrV(2), market_cap |-> Num(250000), primary_exchange |-> StrV(3),
       industry |-> Null, homepage_url |-> StrV(4), description |-> StrV(5)])

DetailsInputs == {Undef, Null, Obj([ticker |-> StrV(6)]), FullDetails}

YearStatsInputs == {Undef, Null, Obj([high |-> Num(1999995), low |-> Num(999994)])}

ReturnInputs == {Undef, Null, Num(-1234565), NotFinite}

VolumeInputs == {Undef, Null, Num(149999)}

NullIndicators ==
  Obj([lastClose |-> Null, sma20 |-> Null, sma50 |-> Null, sma200 |-> Null,
       ema20 |-> Null, ema50 |-> Null, ema200 |-> Null,
       macd |-> Obj([line |-> Null, signal |-> Null, hist |-> Null]),
       rsi14 |-> Null])

FullIndicators ==
  Obj([lastClose |-> Num(1234565), sma20 |-> Num(1234564), sma50 |-> Num(1200000),
       sma200 |-> Null, ema20 |-> Num(1234566), ema50 |-> Num(1199995),
       ema200 |-> Null,
       macd |-> Obj([line |-> Num(-15), signal |-> Num(15), hist |-> Num(-30)]),
       rsi14 |-> Num(10000000)])

IndicatorInputs == {Null, NullIndicators, FullIndicators}

ChartLens == {0, 1, maxPoints, maxPoints + 1}

Chart(n) == [i \in 1..n |-> [t |-> i, y |-> 2 * i]]

\* a news item as getNewsNormalized returns it, with or without its optional
\* fields
Item(i) ==
  IF i % 2 = 1
    THEN Obj([id |-> StrV(i), title |-> StrV(i)])
    ELSE Obj([id |-> StrV(i), title |-> StrV(i), published_utc |-> StrV(i),
              publisher |-> StrV(i), article_url |-> StrV(i), tickers |-> StrV(i)])

Arr(a) == [t |-> "arr", v |-> a]

NewsLens == {0, 1, NewsCap, NewsCap + MaxNewsOver}

NewsInputs == {Null} \cup {Arr([i \in 1..n |-> Item(i)]) : n \in NewsLens}

BuildArgs ==
  [ticker : {"a", "A"}, nowISO : {"now"}, quote : QuoteInputs,
   details : DetailsInputs, yearStats : YearStatsInputs,
   oneYearReturn : ReturnInputs, avgVolume : VolumeInputs,
   indicators : IndicatorInputs, chartData : {Chart(n) : n \in ChartLens},
   news : NewsInputs]

InitPayload ==
  /\ AppIdle
  /\ az = AzOff
  /\ sm = SmOff
  /\ \E args \in BuildArgs : bl = [pc |-> "args", args |-> args, out |-> Threw]

\* one call of buildAIPayload
Build ==
  /\ bl.pc = "args"
  /\ bl' = [bl EXCEPT !.pc = "built", !.out = buildAIPayload(bl.args)]
  /\ UNCHANGED <<appVars, az, sm>>

NextPayload == Build

SpecPayload == InitPayload /\ [][NextPayload]_vars

(***************************************************************************)
(* The rounding helper r on its own, applied to a value and then to its    *)
(* own result, at the two precisions buildAIPayload uses.                  *)
(***************************************************************************)
Precisions == {0, 4}

\* numbers on and next to the multiples of half a unit of either precision,
\* of both signs
RoundNumbers ==
  {k * (Pow10(Scale - d) \div 2) + j : k \in -3..3, j \in -1..1, d \in Precisions}

RoundInputs == {Undef, Null, NotFinite, Huge} \cup {Num(k) : k \in RoundNumbers}

InitRound ==
  /\ AppIdle
  /\ az = AzOff
  /\ sm = SmOff
  /\ \E x \in RoundInputs, d \in Precisions :
       bl = [pc |-> "x", x |-> x, d |-> d, once |-> Undef, twice |-> Undef]

\* r(x, d)
RoundOnce ==
  /\ bl.pc = "x"
  /\ bl' = [bl EXCEPT !.pc = "once", !.once = r(bl.x, bl.d)]
  /\ UNCHANGED <<appVars, az, sm>>

\* r(r(x, d), d)
RoundTwice ==
  /\ bl.pc = "once"
  /\ bl' = [bl EXCEPT !.pc = "twice", !.twice = r(bl.once, bl.d)]
  /\ UNCHANGED <<appVars, az, sm>>

NextRound == RoundOnce \/ RoundTwice

SpecRound == InitRound /\ [][NextRound]_vars

(***************************************************************************)
(* The indicator library.  Its numbers are exact: a rational n/d in lowest *)
(* terms with d > 0, positive or negative infinity (n the sign), or NaN;   *)
(* Nil is the null of a (number | null)[].  The series are integer valued, *)
(* where the sums of the library are exact in double arithmetic as well.   *)
(* A JavaScript index i is position i + 1 of a sequence.                   *)
(***************************************************************************)
MaxLen == 4              \* longest series explored
MaxVal == 3              \* closes range over 0..MaxVal
MaxPeriod == 3           \* periods range over 0..MaxPeriod
ExamplePeriod == 20      \* indicators.ts: sma(closes, 20)

Q(n, d) == [t |-> "q", n |-> n, d |-> d]
PosInf == [t |-> "inf", n |-> 1, d |-> 0]
NaN == [t |-> "nan", n |-> 0, d |-> 0]
Nil == [t |-> "null", n |-> 0, d |-> 0]

Abs(x) == IF x < 0 THEN -x ELSE x

RECURSIVE GCD(_, _)
GCD(a, b) == IF b = 0 THEN a ELSE GCD(b, a % b)

\* n/d in lowest terms, d # 0
Norm(n, d) ==
  LET g == GCD(Abs(n), Abs(d))
      s == IF d < 0 THEN -1 ELSE 1
  IN Q((s * n) \div g, (s * d) \div g)

\* ToNumber: null counts as 0 in arithmetic
ToNumber(x) == IF x.t = "null" THEN Q(0, 1) ELSE x

Neg(a) == [ToNumber(a) EXCEPT !.n = -ToNumber(a).n]

\* a + b
Add(x, y) ==
  LET a == ToNumber(x)
      b == ToNumber(y)
  IN IF a.t = "nan" \/ b.t = "nan" THEN NaN
     ELSE IF a.t = "inf" /\ b.t = "inf" THEN (IF a.n = b.n THEN a ELSE NaN)
     ELSE IF a.t = "inf" THEN a
     ELSE IF b.t = "inf" THEN b
     ELSE LET g == GCD(a.d, b.d)
          IN Norm(a.n * (b.d \div g) + b.n * (a.d \div g), (a.d \div g) * b.d)

\* a - b
Sub(x, y) == Add(x, Neg(y))

Sign(a) == IF a.n < 0 THEN -1 ELSE 1

\* a * b
Mul(x, y) ==
  LET a == ToNumber(x)
      b == ToNumber(y)
  IN IF a.t = "nan" \/ b.t = "nan" THEN NaN
     ELSE IF a.t = "inf" \/ b.t = "inf"
       THEN (IF a.n = 0 \/ b.n = 0 THEN NaN ELSE [PosInf EXCEPT !.n = Sign(a) * Sign(b)])
     ELSE LET g1 == GCD(Abs(a.n), b.d)
              g2 == GCD(Abs(b.n), a.d)
          IN Norm((a.n \div g1) * (b.n \div g2), (a.d \div g2) * (b.d \div g1))

\* a / b
Div(x, y) ==
  LET a == ToNumber(x)
      b == ToNumber(y)
  IN IF a.t = "nan" \/ b.t = "nan" THEN NaN
     ELSE IF b.t = "inf" THEN (IF a.t = "inf" THEN NaN ELSE Q(0, 1))
     ELSE IF b.n = 0
       THEN (IF a.n = 0 THEN NaN ELSE [PosInf EXCEPT !.n = Sign(a)])
     ELSE Mul(a, Norm(b.d, b.n))

\* Array(n).fill(null)
FillNull(n) == [i \in 1..n |-> Nil]

\* the running sum with the value that left the window kept in it
WindowKept(sum, values, i, period) == sum

\* if (i >= period) sum -= values[i - period]
Window(sum, values, i, period) ==
  IF i >= period THEN Sub(sum, values[i - period + 1]) ELSE sum

\* e, evaluated once, handed to F as a value
Bind(e, F(_)) == CHOOSE res \in {F(w) : w \in {e}} : TRUE

\* one iteration of sma's loop on its variables v = [sum, out]
smaStep(values, period, i, v) ==
  LET s == Window(Add(v.sum, values[i + 1]), values, i, period)
  IN [sum |-> s,
      out |-> IF i >= period - 1
                THEN [v.out EXCEPT ![i + 1] = Div(s, Q(period, 1))]
                ELSE v.out]

RECURSIVE smaLoop(_, _, _, _)
smaLoop(values, period, i, v) ==
  IF i >= Len(values) THEN v.out
  ELSE Bind(smaStep(values, period, i, v),
            LAMBDA w : smaLoop(values, period, i + 1, w))

sma(values, period) ==
  IF period <= 0 THEN FillNull(Len(values))
  ELSE smaLoop(values, period, 0, [sum |-> Q(0, 1), out |-> FillNull(Len(values))])

\* the sum of the first period values, undivided
SeedSum(sum, period) == sum

\* const seed = sum / period
Seed(sum, period) == Div(sum, Q(period, 1))

\* one iteration of ema's loop on its variables v = [sum, out]
emaStep(values, period, i, v) ==
  IF i < period
    THEN LET s == Add(v.sum, values[i + 1])
         IN [sum |-> s,
             out |-> IF i = period - 1
                       THEN [v.out EXCEPT ![i + 1] = Seed(s, period)]
                       ELSE v.out]
    ELSE LET k    == Div(Q(2, 1), Q(period + 1, 1))
             next == Add(Mul(values[i + 1], k), Mul(v.out[i], Sub(Q(1, 1), k)))
         IN [sum |-> v.sum, out |-> [v.out EXCEPT ![i + 1] = next]]

RECURSIVE emaLoop(_, _, _, _)
emaLoop(values, period, i, v) ==
  IF i >= Len(values) THEN v.out
  ELSE Bind(emaStep(values, period, i, v),
            LAMBDA w : emaLoop(values, period, i + 1, w))

ema(values, period) ==
  IF period <= 0 THEN FillNull(Len(values))
  ELSE emaLoop(values, period, 0, [sum |-> Q(0, 1), out |-> FillNull(Len(values))])

\* the histogram with a missing signal read as 0
HistUnguarded(v, s) == IF v.t # "null" THEN Sub(v, s) ELSE Nil

\* v != null && sig[i] != null ? v - sig[i] : null
Hist(v, s) == IF v.t # "null" /\ s.t # "null" THEN Sub(v, s) ELSE Nil

\* the leading nulls of line read as 0
FirstZero(line) == Q(0, 1)

\* the last defined value of line in place of the first
LastDefined(line) ==
  LET defined == {i \in 1..Len(line) : line[i].t # "null"}
  IN IF defined = {} THEN Q(0, 1)
     ELSE line[CHOOSE i \in defined : \A j \in defined : i >= j]

\* line.find((x) => x != null) ?? 0
FirstDefined(line) ==
  LET defined == {i \in 1..Len(line) : line[i].t # "null"}
  IN IF defined = {} THEN Q(0, 1)
     ELSE line[CHOOSE i \in defined : \A j \in defined : i <= j]

macd(values, fast, slow, signal) ==
  LET emaFast == ema(values, fast)
      emaSlow == ema(values, slow)
      line    == [i \in 1..Len(values) |->
                    IF emaFast[i].t # "null" /\ emaSlow[i].t # "null"
                      THEN Sub(emaFast[i], emaSlow[i]) ELSE Nil]
      first   == FirstDefined(line)
      sig     == ema([i \in 1..Len(values) |->
                        IF line[i].t = "null" THEN first ELSE line[i]], signal)
  IN [line |-> line, signal |-> sig,
      hist |-> [i \in 1..Len(values) |-> Hist(line[i], sig[i])]]

\* x >= 0
NonNegative(x) == x.t # "nan" /\ x.n >= 0

\* Math.max(x, 0)
Max0(x) == IF x.t = "nan" THEN NaN ELSE IF x.n >= 0 THEN x ELSE Q(0, 1)

\* the ratio taken the other way round
RsInverse(avgGain, avgLoss) ==
  IF avgGain.t = "q" /\ avgGain.n = 0 THEN PosInf ELSE Div(avgLoss, avgGain)

\* avgLoss === 0 ? Infinity : avgGain / avgLoss
Rs(avgGain, avgLoss) ==
  IF avgLoss.t = "q" /\ avgLoss.n = 0 THEN PosInf ELSE Div(avgGain, avgLoss)

\* the relative strength itself, not scaled to 0..100
RsUnscaled(rs) == rs

\* 100 - 100 / (1 + rs)
RsiOf(rs) == Sub(Q(100, 1), Div(Q(100, 1), Add(Q(1, 1), rs)))

\* one iteration of the seed loop on its variables v = <<gainSum, lossSum>>
rsiSeedStep(values, i, v) ==
  LET ch == Sub(values[i + 1], values[i])
  IN IF NonNegative(ch) THEN <<Add(v[1], ch), v[2]>>
     ELSE <<v[1], Add(v[2], Neg(ch))>>

\* the seed loop: <<gainSum, lossSum>>
RECURSIVE rsiSeed(_, _, _, _)
rsiSeed(values, period, i, v) ==
  IF ~(i <= period /\ i < Len(values)) THEN v
  ELSE Bind(rsiSeedStep(values, i, v),
            LAMBDA w : rsiSeed(values, period, i + 1, w))

\* one iteration of the smoothing loop on its variables
\* v = [prevAvgGain, prevAvgLoss, out]
rsiSmoothStep(values, period, i, v) ==
  LET ch == Sub(values[i + 1], values[i])
      g  == Max0(ch)
      l  == Max0(Neg(ch))
      ag == Div(Add(Mul(v.prevAvgGain, Q(period - 1, 1)), g), Q(period, 1))
      al == Div(Add(Mul(v.prevAvgLoss, Q(period - 1, 1)), l), Q(period, 1))
  IN [prevAvgGain |-> ag, prevAvgLoss |-> al,
      out |-> [v.out EXCEPT ![i + 1] = RsiOf(Rs(ag, al))]]

\* the smoothing loop
RECURSIVE rsiSmooth(_, _, _, _)
rsiSmooth(values, period, i, v) ==
  IF i >= Len(values) THEN v.out
  ELSE Bind(rsiSmoothStep(values, period, i, v),
            LAMBDA w : rsiSmooth(values, period, i + 1, w))

rsi(values, period) ==
  IF Len(values) < 2 \/ period <= 0 THEN FillNull(Len(values))
  ELSE LET sums == rsiSeed(values, period, 1, <<Q(0, 1), Q(0, 1)>>)
       IN IF Len(values) > period
            THEN LET avgGain == Div(sums[1], Q(period, 1))
                     avgLoss == Div(sums[2], Q(period, 1))
                 IN rsiSmooth(values, period, period + 1,
                              [prevAvgGain |-> avgGain, prevAvgLoss |-> avgLoss,
                               out |-> [FillNull(Len(values)) EXCEPT
                                          ![period + 1] = RsiOf(Rs(avgGain, avgLoss))]])
            ELSE FillNull(Len(values))

(***************************************************************************)
(* The series and parameters the indicators are applied to.                *)
(***************************************************************************)
RECURSIVE SeriesOfLen(_)
SeriesOfLen(n) ==
  IF n = 0 THEN {<<>>}
  ELSE {Append(s, v) : s \in SeriesOfLen(n - 1), v \in 0..MaxVal}

\* the closes 10, 11, ..., 29
ExampleCloses == [i \in 1..ExamplePeriod |-> 9 + i]

SeriesInputs == UNION {SeriesOfLen(n) : n \in 0..MaxLen} \cup {ExampleCloses}

Periods == (0..MaxPeriod) \cup {ExamplePeriod}

\* <<fast, slow, signal>>
MacdParams ==
  {<<1, 2, 1>>, <<2, 3, 2>>, <<1, 2, 3>>, <<2, 1, 3>>, <<0, 2, 1>>, <<1, 2, 0>>}

Numbers(s) == [i \in 1..Len(s) |-> Q(s[i], 1)]

InitIndicators ==
  /\ AppIdle
  /\ az = AzOff
  /\ sm = SmOff
  /\ \E s \in SeriesInputs :
       bl = [pc |-> "in", values |-> Numbers(s), args |-> <<>>, out |-> <<>>,
             macd |-> [line |-> <<>>, signal |-> <<>>, hist |-> <<>>]]

CallSma ==
  /\ bl.pc = "in"
  /\ \E p \in Periods :
       bl' = [bl EXCEPT !.pc = "sma", !.args = <<p>>, !.out = sma(bl.values, p)]
  /\ UNCHANGED <<appVars, az, sm>>

CallEma ==
  /\ bl.pc = "in"
  /\ \E p \in Periods :
       bl' = [bl EXCEPT !.pc = "ema", !.args = <<p>>, !.out = ema(bl.values, p)]
  /\ UNCHANGED <<appVars, az, sm>>

CallRsi ==
  /\ bl.pc = "in"
  /\ \E p \in Periods :
       bl' = [bl EXCEPT !.pc = "rsi", !.args = <<p>>, !.out = rsi(bl.values, p)]
  /\ UNCHANGED <<appVars, az, sm>>

CallMacd ==
  /\ bl.pc = "in"
  /\ \E a \in MacdParams :
       bl' = [bl EXCEPT !.pc = "macd", !.args = a,
                        !.macd = macd(bl.values, a[1], a[2], a[3])]
  /\ UNCHANGED <<appVars, az, sm>>

NextIndicators == CallSma \/ CallEma \/ CallRsi \/ CallMacd

SpecIndicators == InitIndicators /\ [][NextIndicators]_vars

(***************************************************************************)
(* summarizeIndicators, applied to series of up to 51 closes: long enough   *)
(* for every window but those of 200 points, whose fields stay null.  The  *)
(* series are flat but for their last close, which keeps the exact numbers *)
(* small.                                                                  *)
(***************************************************************************)
MaxLevel == 2            \* closes of the long series range over 1..MaxLevel

\* Array.prototype.at(-1) ?? null
LastOrNull(a) ==
  Bind(a, LAMBDA arr : IF Len(arr) = 0 THEN Nil ELSE arr[Len(arr)])

summarizeIndicators(closes) ==
  Bind(macd(closes, 12, 26, 9),
       LAMBDA macdVals :
         [lastClose |-> LastOrNull(closes),
          sma20 |-> LastOrNull(sma(closes, 20)),
          sma50 |-> LastOrNull(sma(closes, 50)),
          sma200 |-> LastOrNull(sma(closes, 200)),
          ema20 |-> LastOrNull(ema(closes, 20)),
          ema50 |-> LastOrNull(ema(closes, 50)),
          ema200 |-> LastOrNull(ema(closes, 200)),
          macd |-> [line |-> LastOrNull(macdVals.line),
                    signal |-> LastOrNull(macdVals.signal),
                    hist |-> LastOrNull(macdVals.hist)],
          rsi14 |-> LastOrNull(rsi(closes, 14))])

\* the summary before summarizeIndicators has run
NoSummary ==
  [lastClose |-> Nil, sma20 |-> Nil, sma50 |-> Nil, sma200 |-> Nil,
   ema20 |-> Nil, ema50 |-> Nil, ema200 |-> Nil,
   macd |-> [line |-> Nil, signal |-> Nil, hist |-> Nil], rsi14 |-> Nil]

\* the lengths around the windows of 9, 12, 14, 20, 26 and 50 points
SummaryLens == (0..27) \cup {49, 50, 51}

\* n closes, all c but the last, which is c + step
Closes(n, c, step) ==
  [i \in 1..n |-> IF i = n THEN Q(c + step, 1) ELSE Q(c, 1)]

SummaryInputs ==
  {Closes(n, c, step) : n \in SummaryLens, c \in 1..MaxLevel, step \in {-1, 0, 1}}

InitSummary ==
  /\ AppIdle
  /\ az = AzOff
  /\ sm = SmOff
  /\ \E closes \in SummaryInputs :
       bl = [pc |-> "closes", values |-> closes, summary |-> NoSummary]

Summarize ==
  /\ bl.pc = "closes"
  /\ bl' = [bl EXCEPT !.pc = "summary", !.summary = summarizeIndicators(bl.values)]
  /\ UNCHANGED <<appVars, az, sm>>

NextSummary == Summarize

SpecSummary == InitSummary /\ [][NextSummary]_vars

(***************************************************************************)
(* The application on its own: StockSearchApp under every interleaving of  *)
(* submissions, fetch completions and renders.                             *)
(***************************************************************************)
Init ==
  /\ AppIdle
  /\ az = AzOff
  /\ sm = SmOff
  /\ bl = BlOff

Next == AppNext

Spec == Init /\ [][Next]_vars

\* The application when React renders every queued update and each of the
\* details, news and previous-day fetches settles.  Nothing is assumed of the
\* aggregates fetch or of the narrative request: either may stay pending.
SpecLive ==
  /\ Init
  /\ [][Next]_vars
  /\ WF_vars(Render)
  /\ \A g \in Gens : WF_vars(GroupDone(g))

(***************************************************************************)
(* Properties of the application.                                          *)
(***************************************************************************)
\* the state the data-fetch effect's continuations write
DataOf(s) ==
  <<s.chartData, s.indicators, s.yearStats, s.oneYearReturn, s.avgVolume,
    s.quote, s.details, s.news>>

\* run g's aggregates IIFE or allSettled IIFE resumes in this step
Resumes(g) == (g \in aggReq /\ g \notin aggReq') \/ (g \in grpReq /\ g \notin grpReq')

\* the calls of analyzeStock made in this step
NewCalls == {c \in aiCalls' : c \notin aiCalls /\ ~c.cancelled}

\* C1: a fetch result of a run started for a ticker other than the committed
\* one is discarded on arrival: the step in which it resumes leaves chartData,
\* indicators, yearStats, oneYearReturn, avgVolume, quote, details and news
\* as they were.
C1_LateFetchDiscarded ==
  [][\A g \in Gens :
       (Resumes(g) /\ genSym[g] # st.symbol) => DataOf(st') = DataOf(st)]_vars

\* C2: every call of analyzeStock carries a snapshot whose ticker is the
\* committed symbol and whose series, quote and indicators all come from runs
\* started for that symbol.
C2_SnapshotOfCommittedSymbol ==
  [][\A c \in NewCalls :
       /\ c.p.tk = st'.symbol
       /\ genSym[c.p.cd.g] = c.p.tk
       /\ genSym[c.p.q] = c.p.tk
       /\ genSym[c.p.ind] = c.p.tk]_vars

\* C3: a result of analyzeStock writes aiResult or aiError only if the call was
\* issued for the committed symbol and the current aiPayload, and then every
\* other call in flight is cancelled: only the most recent request commits.
C3_LateAnalysisIgnored ==
  [][\A c \in aiCalls :
       (AiDone(c) /\ <<st'.aiResult, st'.aiError>> # <<st.aiResult, st.aiError>>)
         => /\ c.p = st.aiPayload
            /\ c.p.tk = st.symbol
            /\ \A d \in aiCalls \ {c} : d.cancelled]_vars

\* C3 happens: a cancelled call has resumed and been ignored, and the result
\* of the request for the committed symbol is in aiResult.
C3_Witness ==
  /\ ignored
  /\ st.symbol # NoSym
  /\ st.aiResult = st.symbol
  /\ st.aiPayload # NullPayload

\* C4: once the aggregates response of the current run is empty, chartData is
\* empty and no call of analyzeStock is made for as long as the ticker stays
\* committed.
C4_EmptySeriesNeverAnalyzed ==
  [][aggOut' = "empty" => (st'.chartData.n = 0 /\ NewCalls = {})]_vars

\* C5: narrative generation is deferred, not dropped: when the current run has
\* delivered a series (here even one of at least MinPoints bars) and a quote,
\* and nothing is left to happen (no render pending, no fetch in flight),
\* analyzeStock has been called for the committed symbol.
C5_NarrativeNotDropped ==
  (/\ nx = st
   /\ aggReq = {}
   /\ grpReq = {}
   /\ Delivered(aggOut, grpOut)
   /\ st.chartData.n >= MinPoints
   /\ st.quote # 0) => sentCur

\* run g's aggregates IIFE resumes in this step
AggResumes(g) == g \in aggReq /\ g \notin aggReq'

\* C22: whatever the aggregates response, the handler of the current run sets
\* chartData to the bars of that response (none when it carries no bar array
\* or the handler caught an exception), and when it sets the empty sequence
\* yearStats, oneYearReturn and avgVolume are null.
C22_EmptySeriesNullStats ==
  [][(AggResumes(gen) /\ st'.chartData.n = 0)
       => /\ st'.chartData.g = gen
          /\ st'.yearStats = 0
          /\ st'.oneYearReturn = 0
          /\ st'.avgVolume = 0]_vars

\* C23: after the aggregates fetch of the current run completes with n bars,
\* oneYearReturn is the return computed from those bars when n >= 2 and null
\* when n < 2, whatever an earlier ticker left behind.
C23_ReturnOfCurrentRows ==
  [][(AggResumes(gen) /\ st'.chartData.k = "agg")
       => st'.oneYearReturn = IF st'.chartData.n >= 2 THEN gen ELSE 0]_vars

\* nothing is left to happen but a new submission: no render is pending and
\* no fetch or narrative request is in flight
Quiescent == nx = st /\ aggReq = {} /\ grpReq = {} /\ aiCalls = {}

\* C26: aiLoading does not stay true without a live request: once every
\* request has completed, a superseded one included, and every update is
\* rendered, aiLoading is false.
C26_LoadingNeedsLiveCall == Quiescent => ~st.aiLoading

\* C27: a non-null aiResult and a non-null aiError come from a narrative
\* request whose snapshot ticker is the committed symbol, so once onSubmit
\* has committed another ticker the previous ticker's result is not held.
C27_NarrativeOfCommittedSymbol ==
  /\ st.aiResult # NoSym => st.aiResult = st.symbol
  /\ st.aiError # NoSym => st.aiError = st.symbol

\* C29: whenever chartData is non-empty and indicators is non-null, the two
\* were written from the same aggregates response: indicators is the summary
\* of the closes of exactly that chartData.
C29_IndicatorsOfChartData ==
  (st.chartData.n > 0 /\ st.indicators # 0)
    => (st.chartData.k = "agg" /\ st.indicators = st.chartData.g)

\* C29 happens: after a second submission, a reset and a failed fetch, the
\* response of the earlier run has written chartData and indicators together
C29_Witness ==
  /\ st.chartData.n > 0
  /\ st.indicators = st.chartData.g
  /\ st.chartData.g < gen
  /\ aggOut = "fail"

\* run g's allSettled IIFE resumes in this step
GroupResumes(g) == g \in grpReq /\ g \notin grpReq'

TimedOut == [ok |-> FALSE, error |-> ErrTimedOut, analysis |-> NoAnalysis]

\* C6: a call of analyzeStock whose 20 s timer fired, in either phase, resolves
\* to { ok: false, error: "AI request timed out" }, and a failure with no timer
\* fired, on the client or on the server, resolves to another message.
C6_TimeoutReported ==
  az.cpc = "done" =>
    /\ az.ctimer = "fired" => az.cres = TimedOut
    /\ (az.ctimer # "fired" /\ az.stimer # "fired" /\ ~az.cres.ok)
         => az.cres.error # ErrTimedOut

\* the steps analyzeStockStream can take by itself
SmClientStep == SmClientHead \/ SmClientRead \/ SmClientEof

\* C7: a call of analyzeStockStream whose server has stopped sending without
\* closing the stream can still take a step of its own (its timeout), so that
\* it does not wait forever.
C7_StreamTimesOut ==
  (sm.cpc \in {"fetch", "read"} /\ sm.srv = "stalled") => ENABLED SmClientStep

\* C8: when the generation text does not parse as JSON, POST /api/ai/analyze
\* answers 200 with ok = true and analysis = { summary: text }, and
\* analyzeStockStream, unless the connection failed, returns ok = true with
\* analysis = { summary: text }; no error result and no exception come of it.
C8_SummaryFallback ==
  /\ (az.gotContent /\ ~JsonParse(az.content).ok)
       => az.resp = Respond(200, TRUE, "", SummaryOnly(az.content))
  /\ (sm.cpc = "done" /\ sm.srvEnd = "done" /\ ~sm.netFailed /\ ~JsonParse(sm.full).ok)
       => /\ sm.sres.kind = "ok"
          /\ sm.sres.ok
          /\ sm.sres.analysis = SummaryOnly(sm.full)

\* C8 happens on the server: an unparseable, non-empty text has been answered
C8_ServerCase ==
  /\ az.spc = "sent"
  /\ az.gotContent
  /\ az.content # <<>>
  /\ ~JsonParse(az.content).ok
  /\ az.cpc = "done"
  /\ az.cres.ok

\* C8 happens on the stream: the client has finished on an unparseable,
\* non-empty text
C8_StreamCase ==
  /\ sm.cpc = "done"
  /\ sm.srvEnd = "done"
  /\ ~sm.netFailed
  /\ sm.full # <<>>
  /\ ~JsonParse(sm.full).ok

C8_Witness == C8_ServerCase \/ C8_StreamCase

\* the chunk tokens the server wrote, as onDelta should receive them
SentTokens == [i \in 1..Len(sm.sentToks) |-> Str(sm.sentToks[i])]

\* C9: however the byte stream is cut into reads, onDelta has received a prefix
\* of the tokens the server wrote, in order and each once; a call the server
\* ended with its done event, the connection holding, returns ok; and a call
\* that returns ok has received all the tokens and parses the text that is
\* their concatenation and the done event's payload.
C9_StreamReassembly ==
  /\ Len(sm.deltas) <= Len(sm.sentToks)
  /\ sm.deltas = SubSeq(SentTokens, 1, Len(sm.deltas))
  /\ (sm.cpc = "done" /\ sm.srvEnd = "done" /\ ~sm.netFailed) => sm.sres.kind = "ok"
  /\ (sm.cpc = "done" /\ sm.sres.kind = "ok")
       => /\ sm.deltas = SentTokens
          /\ sm.finalJson = Str(Concat(sm.sentToks))
          /\ sm.finalJson = Str(sm.full)
          /\ sm.sres.analysis = FinalAnalysis(Str(sm.full))

\* C9 happens: a call has returned ok after MaxParts tokens, one of them the
\* event separator itself and one a quote
C9_Witness ==
  /\ sm.cpc = "done"
  /\ sm.sres.kind = "ok"
  /\ Len(sm.sentToks) = MaxParts
  /\ \E i \in 1..Len(sm.sentToks) : sm.sentToks[i] = <<NL, NL>>
  /\ \E i \in 1..Len(sm.sentToks) : sm.sentToks[i] = <<QT>>

(***************************************************************************)
(* Properties of buildAIPayload.                                           *)
(***************************************************************************)
PriceKeys ==
  {"last", "change", "changePct", "dayHigh", "dayLow", "prevClose", "volume", "currency"}
FundamentalsKeys == {"name", "marketCap", "exchange", "industry", "homepage"}
StatsKeys == {"high52w", "low52w", "return1y", "avgVolume90d"}
IndicatorKeys ==
  {"lastClose", "sma20", "sma50", "sma200", "ema20", "ema50", "ema200", "macd", "rsi14"}
MacdKeys == {"line", "signal", "hist"}

\* every key of o is one of keys, and holds null, a number or a string
AllPresent(o, keys) ==
  /\ DOMAIN o = keys
  /\ \A k \in keys : o[k].t \in {"null", "num", "str"}

AllNull(o, keys) == \A k \in keys : o[k] = Null

\* C10: with a quote object given, whatever optional input is missing,
\* buildAIPayload does not throw, every documented key of its result is
\* present, and the keys fed by a missing input hold null (news: an empty
\* array).
C10_PayloadTotal ==
  (bl.pc = "built" /\ bl.args.quote.t = "obj") =>
    /\ ~bl.out.threw
    /\ LET p == bl.out.value
           a == bl.args
       IN /\ DOMAIN p = {"ticker", "asOf", "price", "fundamentals", "stats",
                         "indicators", "series", "news"}
          /\ p.ticker = "A"
          /\ p.asOf = a.nowISO
          /\ AllPresent(p.price, PriceKeys)
          /\ AllPresent(p.fundamentals, FundamentalsKeys)
          /\ AllPresent(p.stats, StatsKeys)
          /\ DOMAIN p.indicators = IndicatorKeys
          /\ AllPresent([k \in IndicatorKeys \ {"macd"} |-> p.indicators[k]],
                        IndicatorKeys \ {"macd"})
          /\ AllPresent(p.indicators.macd, MacdKeys)
          /\ DOMAIN p.series = {"timeframe", "points"}
          /\ IsNullish(a.details) => AllNull(p.fundamentals, FundamentalsKeys)
          /\ IsNullish(a.yearStats) => AllNull(p.stats, {"high52w", "low52w"})
          /\ IsNullish(a.oneYearReturn) => p.stats.return1y = Null
          /\ IsNullish(a.avgVolume) => p.stats.avgVolume90d = Null
          /\ IsNullish(a.indicators)
               => /\ AllNull(p.indicators, IndicatorKeys \ {"macd"})
                  /\ AllNull(p.indicators.macd, MacdKeys)
          /\ IsNullish(a.news) => p.news = <<>>

\* C10 happens: buildAIPayload has returned with details, yearStats,
\* oneYearReturn, avgVolume, indicators and news all missing
C10_Witness ==
  /\ bl.pc = "built"
  /\ bl.args.quote.t = "obj"
  /\ IsNullish(bl.args.details)
  /\ IsNullish(bl.args.yearStats)
  /\ IsNullish(bl.args.oneYearReturn)
  /\ IsNullish(bl.args.avgVolume)
  /\ IsNullish(bl.args.indicators)
  /\ IsNullish(bl.args.news)
  /\ ~bl.out.threw

\* C11: when the quote argument is null itself, buildAIPayload does not throw
\* and returns a snapshot whose price block holds null in every field.
C11_NullQuoteNullPrices ==
  (bl.pc = "built" /\ bl.args.quote = Null) =>
    /\ ~bl.out.threw
    /\ AllNull(bl.out.value.price, PriceKeys)

\* x is null, or a finite number that rounding at d decimals leaves unchanged
Rounded(x, d) == x = Null \/ (x.t = "num" /\ r(x, d) = x)

\* C12: every numeric leaf of a returned snapshot is null or a finite number
\* equal to its own rounding: 4 decimals, 0 for volume, marketCap and
\* avgVolume90d; the close c of every series point included.
C12_LeavesRounded ==
  (bl.pc = "built" /\ ~bl.out.threw) =>
    LET p == bl.out.value IN
    /\ \A k \in PriceKeys \ {"volume", "currency"} : Rounded(p.price[k], 4)
    /\ Rounded(p.price.volume, 0)
    /\ Rounded(p.fundamentals.marketCap, 0)
    /\ \A k \in StatsKeys \ {"avgVolume90d"} : Rounded(p.stats[k], 4)
    /\ Rounded(p.stats.avgVolume90d, 0)
    /\ \A k \in IndicatorKeys \ {"macd"} : Rounded(p.indicators[k], 4)
    /\ \A k \in MacdKeys : Rounded(p.indicators.macd[k], 4)
    /\ \A i \in DOMAIN p.series.points : Rounded(Num(p.series.points[i].c), 4)

NewsKeys == {"id", "title", "published_utc", "publisher", "article_url"}

\* C13: every news item of a returned snapshot has the five keys id, title,
\* published_utc, publisher and article_url, none of them undefined, and the
\* serialised request body keeps all five.
C13_NewsKeysPresent ==
  (bl.pc = "built" /\ ~bl.out.threw) =>
    \A i \in DOMAIN bl.out.value.news :
      LET n == bl.out.value.news[i] IN
      /\ DOMAIN n = NewsKeys
      /\ \A k \in NewsKeys : n[k].t # "undef"
      /\ SerializedKeys(n) = NewsKeys

\* C14: series.points holds the last min(L, 180) points of chartData, in
\* input order, each reduced to {t, c}.
C14_SeriesTrimmed ==
  (bl.pc = "built" /\ ~bl.out.threw) =>
    LET chart == bl.args.chartData
        pts   == bl.out.value.series.points
        L     == Len(chart)
        n     == IF L > maxPoints THEN maxPoints ELSE L
    IN /\ Len(pts) = n
       /\ \A i \in 1..n : pts[i] = [t |-> chart[L - n + i].t, c |-> chart[L - n + i].y]

\* C14 happens: a chart longer than the cap was trimmed
C14_Witness ==
  /\ bl.pc = "built"
  /\ ~bl.out.threw
  /\ Len(bl.args.chartData) > maxPoints
  /\ Len(bl.out.value.series.points) = maxPoints

\* C15: news holds the first min(L, 8) items of the input list, in input
\* order.
C15_NewsTrimmed ==
  (bl.pc = "built" /\ ~bl.out.threw /\ bl.args.news.t = "arr") =>
    LET items == bl.args.news.v
        out   == bl.out.value.news
        L     == Len(items)
        n     == IF L > NewsCap THEN NewsCap ELSE L
    IN /\ Len(out) = n
       /\ \A i \in 1..n : /\ out[i].id = Get(items[i], "id")
                           /\ out[i].title = Get(items[i], "title")

\* C15 happens: a news list longer than the cap was cut to its first 8 items
C15_Witness ==
  /\ bl.pc = "built"
  /\ ~bl.out.threw
  /\ bl.args.news.t = "arr"
  /\ Len(bl.args.news.v) > NewsCap
  /\ Len(bl.out.value.news) = NewsCap

(***************************************************************************)
(* Properties of the rounding helper.                                      *)
(***************************************************************************)
\* C16: r is idempotent at a fixed precision: for every finite number x and
\* d in {0, 4}, r(r(x, d), d) = r(x, d); and r(null, d) = null.
C16_RoundIdempotent ==
  /\ (bl.pc = "twice" /\ bl.x.t \in {"num", "huge"}) => bl.twice = bl.once
  /\ (bl.pc = "twice" /\ bl.x = Null) => bl.once = Null

(***************************************************************************)
(* Properties of the indicator library.                                    *)
(***************************************************************************)
RECURSIVE SumFrom(_, _, _)
SumFrom(values, lo, hi) ==
  IF lo > hi THEN Q(0, 1) ELSE Add(values[lo], SumFrom(values, lo + 1, hi))

\* the arithmetic mean of positions lo..hi
Mean(values, lo, hi) == Div(SumFrom(values, lo, hi), Q(hi - lo + 1, 1))

\* C17: for a period p >= 1, sma(values, p) is as long as values, is null
\* at every index i < p - 1 and is the mean of values[i-p+1..i] at every
\* index i >= p - 1; for the closes 10..29 and p = 20 it is 19.5 at index 19
\* and null at index 18.
C17_SmaWindowMean ==
  (bl.pc = "sma" /\ bl.args[1] >= 1) =>
    LET p == bl.args[1]
        n == Len(bl.values)
    IN /\ Len(bl.out) = n
       /\ \A i \in 0..(n - 1) :
            bl.out[i + 1] = IF i < p - 1 THEN Nil ELSE Mean(bl.values, i - p + 2, i + 1)
       /\ (bl.values = Numbers(ExampleCloses) /\ p = ExamplePeriod)
            => (bl.out[20] = Q(39, 2) /\ bl.out[19] = Nil)

\* C17 happens: sma(closes, 20) of the closes 10..29 was computed, and it is
\* 19.5 at index 19
C17_Witness ==
  /\ bl.pc = "sma"
  /\ bl.args[1] = ExamplePeriod
  /\ bl.values = Numbers(ExampleCloses)
  /\ bl.out[20] = Q(39, 2)

\* C18: for a period p >= 1 and a series of length n >= p, ema(values, p) at
\* index p - 1 is sma(values, p) at index p - 1, is null at every index
\* i < p - 1, and at every index i >= p is values[i] * k + ema[i-1] * (1 - k)
\* with k = 2 / (p + 1).
C18_EmaSeedAndRecurrence ==
  (bl.pc = "ema" /\ bl.args[1] >= 1 /\ Len(bl.values) >= bl.args[1]) =>
    LET p == bl.args[1]
        n == Len(bl.values)
        k == Div(Q(2, 1), Q(p + 1, 1))
    IN /\ bl.out[p] = sma(bl.values, p)[p]
       /\ bl.out[p] # Nil
       /\ \A i \in 0..(p - 2) : bl.out[i + 1] = Nil
       /\ \A i \in p..(n - 1) :
            bl.out[i + 1] = Add(Mul(bl.values[i + 1], k), Mul(bl.out[i], Sub(Q(1, 1), k)))

\* C18 happens: an ema with a period of at least 2 was seeded and then
\* carried on by the recurrence, with nulls before the seed
C18_Witness ==
  /\ bl.pc = "ema"
  /\ bl.args[1] >= 2
  /\ Len(bl.values) > bl.args[1]
  /\ bl.out[1] = Nil
  /\ bl.out[bl.args[1]] # Nil
  /\ bl.out[Len(bl.values)] # bl.out[bl.args[1]]

StrictlyIncreasing(values) ==
  \A i \in 1..(Len(values) - 1) : values[i].n < values[i + 1].n

\* rsi is 100 from index period on, and nowhere NaN or infinite
Saturated ==
  /\ \A i \in bl.args[1]..(Len(bl.values) - 1) : bl.out[i + 1] = Q(100, 1)
  /\ \A i \in 1..Len(bl.out) : bl.out[i].t \in {"null", "q"}

\* C19 as stated: for a strictly increasing series longer than period,
\* rsi(values, period) is 100 at every index i >= period and no element is
\* NaN or infinite.
C19_RsiSaturates ==
  (bl.pc = "rsi" /\ StrictlyIncreasing(bl.values) /\ Len(bl.values) > bl.args[1])
    => Saturated

\* C19 for a period of at least 1: for a strictly increasing series longer
\* than period, rsi(values, period) is 100 at every index i >= period and no
\* element is NaN or infinite.
C19_RsiSaturatesPositivePeriod ==
  (/\ bl.pc = "rsi"
   /\ bl.args[1] >= 1
   /\ StrictlyIncreasing(bl.values)
   /\ Len(bl.values) > bl.args[1])
    => Saturated

\* C19 happens: rsi of a strictly increasing series ran past the seed into
\* the smoothing loop and is 100 there
C19_Witness ==
  /\ bl.pc = "rsi"
  /\ bl.args[1] >= 1
  /\ StrictlyIncreasing(bl.values)
  /\ Len(bl.values) > bl.args[1] + 1
  /\ bl.out[Len(bl.values)] = Q(100, 1)

\* C20: at every index, macd's line is null exactly when ema(fast) or
\* ema(slow) is null and is their difference otherwise; hist is null when
\* line or signal is null and is line - signal otherwise.
C20_MacdHistogram ==
  bl.pc = "macd" =>
    LET m       == bl.macd
        emaFast == ema(bl.values, bl.args[1])
        emaSlow == ema(bl.values, bl.args[2])
    IN \A i \in 1..Len(bl.values) :
         /\ (m.line[i] = Nil) <=> (emaFast[i] = Nil \/ emaSlow[i] = Nil)
         /\ m.line[i] # Nil => m.line[i] = Sub(emaFast[i], emaSlow[i])
         /\ m.hist[i] = IF m.line[i] = Nil \/ m.signal[i] = Nil
                          THEN Nil ELSE Sub(m.line[i], m.signal[i])

\* C20 happens: one macd result has an index where line is defined and
\* signal is null, one where signal is defined and line is null, and one
\* where hist is defined
C20_Witness ==
  /\ bl.pc = "macd"
  /\ \E i \in 1..Len(bl.values) :
       bl.macd.line[i] # Nil /\ bl.macd.signal[i] = Nil /\ bl.macd.hist[i] = Nil
  /\ \E i \in 1..Len(bl.values) : bl.macd.hist[i] # Nil

\* x is a number between 0 and 100
Percentage(x) == x.t = "q" /\ x.n >= 0 /\ x.n <= 100 * x.d

\* C25: for period >= 1, rsi(values, period) has the length of values, is
\* null at every index i < period, is null everywhere when values has period
\* points or fewer, and otherwise has a value at every index i >= period;
\* every value lies in [0, 100].
C25_RsiShapeAndRange ==
  (bl.pc = "rsi" /\ bl.args[1] >= 1) =>
    LET period == bl.args[1]
        n      == Len(bl.values)
    IN /\ Len(bl.out) = n
       /\ \A i \in 1..n :
            IF i - 1 >= period /\ n > period
              THEN Percentage(bl.out[i])
              ELSE bl.out[i] = Nil

\* C25 happens: an rsi result with nulls before index period and, in the
\* smoothing loop, a value strictly between 0 and 100
C25_Witness ==
  /\ bl.pc = "rsi"
  /\ bl.args[1] >= 1
  /\ Len(bl.values) > bl.args[1] + 1
  /\ bl.out[bl.args[1]] = Nil
  /\ LET last == bl.out[Len(bl.values)]
     IN Percentage(last) /\ last.n > 0 /\ last.n < 100 * last.d

\* the line series with every null replaced by its first defined value, or
\* by 0 when it has none
Substituted(line) ==
  LET n == Len(line)
      k == IF \A i \in 1..n : line[i] = Nil THEN 0
           ELSE CHOOSE i \in 1..n : line[i] # Nil /\ \A j \in 1..(i - 1) : line[j] = Nil
  IN [i \in 1..n |-> IF line[i] # Nil THEN line[i]
                      ELSE IF k = 0 THEN Q(0, 1) ELSE line[k]]

SignalOfSubstituted ==
  /\ bl.macd.signal = ema(Substituted(bl.macd.line), bl.args[3])
  /\ \A i \in 1..Len(bl.values) :
       (bl.macd.signal[i] # Nil) <=> (i - 1 >= bl.args[3] - 1)

\* C24 as stated: for every fast, slow and signal, macd's signal series is the
\* ema over `signal` points of the line with its nulls replaced by the first
\* defined line value (0 when there is none), and signal[i] is defined
\* exactly for i >= signal - 1.
C24_SignalOfSubstituted == bl.pc = "macd" => SignalOfSubstituted

\* C24 for a signal window of at least one point
C24_SignalOfSubstitutedPositive ==
  (bl.pc = "macd" /\ bl.args[3] >= 1) => SignalOfSubstituted

\* C24 happens: a macd result whose signal is defined at an index where the
\* line is null, the line having a defined value other than 0 later on
C24_Witness ==
  /\ bl.pc = "macd"
  /\ bl.args[3] >= 1
  /\ \E i \in 1..Len(bl.values) : bl.macd.line[i] = Nil /\ bl.macd.signal[i] # Nil
  /\ \E i \in 1..Len(bl.values) : bl.macd.line[i] # Nil /\ bl.macd.line[i] # Q(0, 1)

\* the series that agrees with values up to index i and is 0 after it: two
\* series of one length that agree up to i have the same Past
Past(values, i) ==
  [j \in 1..Len(values) |-> IF j <= i THEN values[j] ELSE Q(0, 1)]

\* the comparison is made on the enumerated series; the long example series,
\* once cut off, takes the exact averages out of the range of the integers
Enumerated(pc) == bl.pc = pc /\ Len(bl.values) <= MaxLen

\* the indices after which something is cut off
Cut == 1..(Len(bl.values) - 1)

\* sma, ema and rsi at index i are what they are for the series cut off
\* after i
CausalAverages ==
  /\ Enumerated("sma") =>
       \A i \in Cut : bl.out[i] = sma(Past(bl.values, i), bl.args[1])[i]
  /\ Enumerated("ema") =>
       \A i \in Cut : bl.out[i] = ema(Past(bl.values, i), bl.args[1])[i]
  /\ Enumerated("rsi") =>
       \A i \in Cut : bl.out[i] = rsi(Past(bl.values, i), bl.args[1])[i]

\* macd's line and hist at index i are what they are for the series cut off
\* after i, and so is its signal, at every index or only where the line is
\* defined
CausalMacd(everywhere) ==
  Enumerated("macd") =>
    \A i \in Cut :
      LET m == macd(Past(bl.values, i), bl.args[1], bl.args[2], bl.args[3])
      IN /\ bl.macd.line[i] = m.line[i]
         /\ bl.macd.hist[i] = m.hist[i]
         /\ (everywhere \/ bl.macd.line[i] # Nil) => bl.macd.signal[i] = m.signal[i]

C21_ShortSeriesNull ==
  bl.pc = "summary" =>
    LET n == Len(bl.values)
        s == bl.summary
    IN /\ n < 20 => (s.sma20 = Nil /\ s.ema20 = Nil)
       /\ n < 50 => (s.sma50 = Nil /\ s.ema50 = Nil)
       /\ n < 200 => (s.sma200 = Nil /\ s.ema200 = Nil)
       /\ n < 15 => s.rsi14 = Nil
       /\ n < 26 => (s.macd.line = Nil /\ s.macd.signal = Nil /\ s.macd.hist = Nil)
       /\ n = 0 => s.lastClose = Nil

=============================================================================
